---- MODULE Spec2Model ----
(***************************************************************************)
(* One Stepper object of torax/stepper, constructed once and then invoked  *)
(* repeatedly by the outer time-step loop.                                 *)
(*                                                                         *)
(* Stepper.__call__ (stepper.py) and the three _x_new / _x_new_helper      *)
(* methods (nonlinear_theta_method.py) are translated from the source.     *)
(* The solve blocks (torax.fvm), the coefficient callback (torax.sim) and  *)
(* the merge (torax.update_state) are imported by that source; they are    *)
(* modelled from sections 4.2-4.4 of the design document.                  *)
(*                                                                         *)
(* Numbers: the grid has one cell, a field value is an integer, and a      *)
(* damping factor is an integer number of sixteenths (TauOne = 16/16).     *)
(***************************************************************************)
EXTENDS Integers, Sequences, FiniteSets, TLC

(* ------------------------------ bounds -------------------------------- *)
\* maxiter given at construction ranges over 0..MaxIter
MaxIter == 2
\* the caller's profiles are the base profile shifted by 0..MaxShift, and
\* the caller's time step lasts 1..MaxShift+1
MaxShift == 1

(* ------------------------- profile containers -------------------------- *)
\* state.CoreProfiles: the four evolvable fields, in the order __call__
\* tests their flags
FieldOrder == <<"temp_ion", "temp_el", "psi", "ne">>

FieldSet == {FieldOrder[i] : i \in 1..Len(FieldOrder)}

Rank(f) == CHOOSE i \in 1..Len(FieldOrder) : FieldOrder[i] = f

\* what the outer loop may pass as core_profiles_t and as the prescribed
\* core_profiles_t_plus_dt: all eight values differ
CallerProfiles ==
  {[core_profiles_t |-> [f \in FieldSet |-> Rank(f) + k],
    core_profiles_t_plus_dt |-> [f \in FieldSet |-> 10 * Rank(f) + k],
    dt |-> k + 1] :
     k \in 0..MaxShift}

\* static_config_slice: the four equation flags
StaticConfigSlices ==
  [ion_heat_eq : BOOLEAN, el_heat_eq : BOOLEAN,
   current_eq : BOOLEAN, dens_eq : BOOLEAN]

\* state.CoreTransport.zeros(geo)
CoreTransportZeros == [kind |-> "CoreTransport", coeffs |-> [f \in FieldSet |-> 0]]

\* state.AuxOutput.zeros(geo)
AuxOutputZeros == [kind |-> "AuxOutput", coeffs |-> [f \in FieldSet |-> 0]]

\* a local of __call__ that has not been assigned yet
Unset == [kind |-> "unset"]

(* ------------------------- Stepper.__call__ ---------------------------- *)
\* EvolvingNames with the current_eq test placed before the el_heat_eq test
EvolvingNamesPsiFirst(cfg) ==
  (IF cfg.ion_heat_eq THEN <<"temp_ion">> ELSE <<>>)
    \o (IF cfg.current_eq THEN <<"psi">> ELSE <<>>)
    \o (IF cfg.el_heat_eq THEN <<"temp_el">> ELSE <<>>)
    \o (IF cfg.dens_eq THEN <<"ne">> ELSE <<>>)

\* lines 105-115: the evolving selection derived from the flags
EvolvingNames(cfg) ==
  (IF cfg.ion_heat_eq THEN <<"temp_ion">> ELSE <<>>)
    \o (IF cfg.el_heat_eq THEN <<"temp_el">> ELSE <<>>)
    \o (IF cfg.current_eq THEN <<"psi">> ELSE <<>>)
    \o (IF cfg.dens_eq THEN <<"ne">> ELSE <<>>)

(* ---------------------- integer helper arithmetic ---------------------- *)
Abs(n) == IF n < 0 THEN -n ELSE n

Sign(n) == IF n < 0 THEN -1 ELSE IF n > 0 THEN 1 ELSE 0

\* division rounding towards zero (the rounding of the damped step)
TruncDiv(a, b) ==
  IF (a >= 0) = (b > 0) THEN Abs(a) \div Abs(b) ELSE -(Abs(a) \div Abs(b))

RECURSIVE SumSeq(_)
SumSeq(s) == IF s = <<>> THEN 0 ELSE Head(s) + SumSeq(Tail(s))

(* ------------------- physics closures (section 6) ---------------------- *)
\* The transport and source closures the stepper is constructed with. Each
\* law gives, for the change u of a field from its t-state value, a
\* transport coefficient and a source term.
TransportModels ==
  {"constant", "steady", "threshold", "barrier", "stiff", "bounded"}

\* transport closure: compute(profile_state) -> coefficient
Diffusion(model, u) ==
  CASE model = "constant" -> 2
    [] model = "steady" -> 1
    [] model = "threshold" -> IF Abs(u - 2) <= 1 THEN 4 ELSE 1
    [] model = "barrier" -> 1
    [] model = "stiff" -> 1 + u * u
    [] model = "bounded" -> IF Abs(u - 2) <= 1 THEN 4 ELSE 1

\* source closure: compute_implicit(profile_state_guess) -> source
Source(model, u) ==
  CASE model = "constant" -> 3
    [] model = "steady" -> 0
    [] model = "threshold" ->
         IF Abs(u - 2) <= 1 THEN 2 ELSE IF u > 2 THEN -1 ELSE 5
    [] model = "barrier" -> u - (u * u + 2)
    [] model = "stiff" -> 2
    [] model = "bounded" ->
         IF Abs(u - 2) <= 1 THEN 2 ELSE IF u > 2 THEN -1 ELSE 5

\* the closures return a non-finite value (NaN or Inf) outside the range of
\* profile states they are defined for
NonFinite(model, u) == model = "bounded" /\ u > 3

(* ---------------- coefficient callback (section 4.2) ------------------- *)
CallbackClasses == {"CoeffsCallback", "FrozenCoeffsCallback"}

\* the change of evolving variable i of guess x from the bound t-state
Change(cb, x, i) == x[i] - cb.core_profiles_t[cb.evolving_names[i]]

\* coeffs_callback(x): the coefficients of every evolving variable at the
\* trial guess x; the frozen callback returns those of the t-state
CallbackCall(cb, x) ==
  [i \in 1..Len(cb.evolving_names) |->
     LET u == IF cb.class = "FrozenCoeffsCallback" THEN 0 ELSE Change(cb, x, i)
     IN  [D |-> Diffusion(cb.transport_model, u),
          S |-> Source(cb.transport_model, u)]]

\* the coefficients at trial x are all finite
FiniteAt(cb, x) ==
  \A i \in 1..Len(cb.evolving_names) :
    ~NonFinite(cb.transport_model,
               IF cb.class = "FrozenCoeffsCallback" THEN 0 ELSE Change(cb, x, i))

\* the discretized residual at trial x over a step of duration dt:
\* D * (x - x_old - dt * S) per variable
Residual(cb, dt, x_old, x) ==
  LET c == CallbackCall(cb, x)
  IN  [i \in 1..Len(x) |-> c[i].D * (x[i] - x_old[i] - dt * c[i].S)]

\* the scalar residual norm
ResidualNorm(cb, dt, x_old, x) ==
  LET r == Residual(cb, dt, x_old, x)
  IN  SumSeq([i \in 1..Len(r) |-> Abs(r[i])])

\* the loss of the residual-minimization solver: the squared norm
Loss(cb, dt, x_old, x) ==
  LET r == Residual(cb, dt, x_old, x)
  IN  SumSeq([i \in 1..Len(r) |-> r[i] * r[i]])

\* differentiation capability: forward difference of the residual
Jacobian(cb, dt, x_old, x) ==
  LET r  == Residual(cb, dt, x_old, x)
      r1 == Residual(cb, dt, x_old, [i \in 1..Len(x) |-> x[i] + 1])
  IN  [i \in 1..Len(x) |-> r1[i] - r[i]]

\* the forward difference is finite when both of its evaluations are
JacobianFinite(cb, x) ==
  FiniteAt(cb, x) /\ FiniteAt(cb, [i \in 1..Len(x) |-> x[i] + 1])

\* linear solve primitive: Jacobian . delta = -residual; a singular
\* Jacobian gives a non-finite step
LinearSolve(jac, r) ==
  IF \E i \in 1..Len(jac) : jac[i] = 0
  THEN [finite |-> FALSE, vec |-> <<>>]
  ELSE [finite |-> TRUE, vec |-> [i \in 1..Len(r) |-> TruncDiv(-r[i], jac[i])]]

\* the transport snapshot and the source profiles at the solution x
SolveCoreTransport(cb, x) ==
  LET c == CallbackCall(cb, x)
  IN  [kind |-> "CoreTransport",
       coeffs |-> [f \in FieldSet |->
          IF \E i \in 1..Len(x) : cb.evolving_names[i] = f
          THEN c[CHOOSE i \in 1..Len(x) : cb.evolving_names[i] = f].D ELSE 0]]

SolveCoreSources(cb, x) ==
  LET c == CallbackCall(cb, x)
  IN  [kind |-> "SourceProfiles",
       coeffs |-> [f \in FieldSet |->
          IF \E i \in 1..Len(x) : cb.evolving_names[i] = f
          THEN c[CHOOSE i \in 1..Len(x) : cb.evolving_names[i] = f].S ELSE 0]]

(* ----------------------- initial guess (4.3/4.4) ----------------------- *)
InitialGuessModes == {"x_old", "linear"}

\* x_old: reuse the t-state values; linear: explicit predictor from the
\* coefficients at the t-state
InitialGuess(mode, cb, dt, x_old) ==
  IF mode = "x_old" THEN x_old
  ELSE LET c == CallbackCall(cb, x_old)
       IN  [i \in 1..Len(x_old) |-> x_old[i] + dt * c[i].S]

(* --------------------- solver tunables and defaults -------------------- *)
\* a damping factor of 1, in sixteenths
TauOne == 16

\* module-level defaults of newton_raphson_solve_block and
\* optimizer_solve_block, in the units of this model
MAXITER == 2
TOL == 1
COARSE_TOL == 6
DELTA_REDUCTION_FACTOR == 8
TAU_MIN == 1

\* values a caller may construct a stepper with
Tols == {TOL, 4}
Tolerances ==
  {[tol |-> TOL, coarse_tol |-> COARSE_TOL],
   [tol |-> 4, coarse_tol |-> COARSE_TOL],
   [tol |-> TOL, coarse_tol |-> 20]}
DeltaReductionFactors == {DELTA_REDUCTION_FACTOR, 4}
TauMins == {TAU_MIN, TauOne}

\* the keyword defaults of newton_raphson_solve_block
NewtonRaphsonDefaults ==
  [initial_guess_mode |-> "linear", maxiter |-> MAXITER, tol |-> TOL,
   coarse_tol |-> COARSE_TOL,
   delta_reduction_factor |-> DELTA_REDUCTION_FACTOR, tau_min |-> TAU_MIN]

\* the keyword defaults of optimizer_solve_block
OptimizerDefaults ==
  [initial_guess_mode |-> "linear", maxiter |-> MAXITER, tol |-> TOL]

(* ----------------------------- constructors ---------------------------- *)
\* Stepper.__init__: the base class, whose _x_new raises
StepperInit(transport_model) ==
  [class |-> "Stepper", transport_model |-> transport_model]

\* OptimizerThetaMethod.__init__
OptimizerThetaMethodInit(transport_model, callback_class, initial_guess_mode, maxiter, tol) ==
  [class |-> "OptimizerThetaMethod", transport_model |-> transport_model,
   callback_class |-> callback_class,
   initial_guess_mode |-> initial_guess_mode, maxiter |-> maxiter,
   tol |-> tol]

\* NewtonRaphsonThetaMethod.__init__
NewtonRaphsonThetaMethodInit(transport_model, callback_class, initial_guess_mode, maxiter, tol, coarse_tol, delta_reduction_factor, tau_min) ==
  [class |-> "NewtonRaphsonThetaMethod", transport_model |-> transport_model,
   callback_class |-> callback_class,
   initial_guess_mode |-> initial_guess_mode, maxiter |-> maxiter,
   tol |-> tol, coarse_tol |-> coarse_tol,
   delta_reduction_factor |-> delta_reduction_factor, tau_min |-> tau_min]

\* NonlinearThetaMethod.__init__, lines 49-56
NonlinearThetaMethodInit(transport_model, callback_class) ==
  [class |-> "NonlinearThetaMethod", transport_model |-> transport_model,
   callback_class |-> callback_class]

\* constructions of NonlinearThetaMethod itself, or of a subclass of it
\* that does not define _x_new_helper: the method is abstract (lines
\* 102-103), so the construction raises TypeError and yields no object
AbstractSteppers ==
  {NonlinearThetaMethodInit(m, c) :
     m \in TransportModels, c \in CallbackClasses}

\* every stepper the model constructs
Steppers ==
  {StepperInit(m) : m \in TransportModels}
  \cup {OptimizerThetaMethodInit(m, c, g, n, t) :
          m \in TransportModels, c \in CallbackClasses,
          g \in InitialGuessModes, n \in 0..MaxIter, t \in Tols}
  \cup {NewtonRaphsonThetaMethodInit(m, c, g, n, t.tol, t.coarse_tol, f, tm) :
          m \in TransportModels, c \in CallbackClasses,
          g \in InitialGuessModes, n \in 0..MaxIter, t \in Tolerances,
          f \in DeltaReductionFactors, tm \in TauMins}

(* ------------------ NonlinearThetaMethod and subclasses ---------------- *)
\* CoeffsCallbackNew that builds the default sim.CoeffsCallback whatever
\* callback_class the stepper was given
CoeffsCallbackNewDefaultClass(stepper, a, names) ==
  [class |-> "CoeffsCallback",
   core_profiles_t |-> a.core_profiles_t,
   core_profiles_t_plus_dt |-> a.core_profiles_t_plus_dt,
   static_config_slice |-> a.static_config_slice,
   transport_model |-> stepper.transport_model,
   evolving_names |-> names]

\* CoeffsCallbackNew with the two profile states passed in each other's
\* place
CoeffsCallbackNewSwappedStates(stepper, a, names) ==
  [class |-> stepper.callback_class,
   core_profiles_t |-> a.core_profiles_t_plus_dt,
   core_profiles_t_plus_dt |-> a.core_profiles_t,
   static_config_slice |-> a.static_config_slice,
   transport_model |-> stepper.transport_model,
   evolving_names |-> names]

\* _x_new, lines 77-86: the callback object built for this call
CoeffsCallbackNew(stepper, a, names) ==
  [class |-> stepper.callback_class,
   core_profiles_t |-> a.core_profiles_t,
   core_profiles_t_plus_dt |-> a.core_profiles_t_plus_dt,
   static_config_slice |-> a.static_config_slice,
   transport_model |-> stepper.transport_model,
   evolving_names |-> names]

\* XOld that lists the fields in the reverse of the selection's order
XOldReversed(core_profiles_t, names) ==
  [i \in 1..Len(names) |-> core_profiles_t[names[Len(names) + 1 - i]]]

\* _x_new_helper, lines 183 and 268: x_old handed to the solve block
XOld(core_profiles_t, names) ==
  [i \in 1..Len(names) |-> core_profiles_t[names[i]]]

\* OptimizerThetaMethod._x_new_helper, lines 190-192: tunables passed on
OptimizerKwargs(stepper) ==
  [initial_guess_mode |-> stepper.initial_guess_mode,
   maxiter |-> stepper.maxiter, tol |-> stepper.tol]

\* NewtonRaphsonKwargs without coarse_tol=self.coarse_tol
NewtonRaphsonKwargsNoCoarseTol(stepper) ==
  [initial_guess_mode |-> stepper.initial_guess_mode,
   maxiter |-> stepper.maxiter, tol |-> stepper.tol,
   delta_reduction_factor |-> stepper.delta_reduction_factor]

\* NewtonRaphsonKwargs without tol=self.tol
NewtonRaphsonKwargsNoTol(stepper) ==
  [initial_guess_mode |-> stepper.initial_guess_mode,
   maxiter |-> stepper.maxiter, coarse_tol |-> stepper.coarse_tol,
   delta_reduction_factor |-> stepper.delta_reduction_factor]

\* NewtonRaphsonKwargs without maxiter=self.maxiter
NewtonRaphsonKwargsNoMaxiter(stepper) ==
  [initial_guess_mode |-> stepper.initial_guess_mode, tol |-> stepper.tol,
   coarse_tol |-> stepper.coarse_tol,
   delta_reduction_factor |-> stepper.delta_reduction_factor]

\* NewtonRaphsonThetaMethod._x_new_helper, lines 276-280: tunables passed on
NewtonRaphsonKwargs(stepper) ==
  [initial_guess_mode |-> stepper.initial_guess_mode,
   maxiter |-> stepper.maxiter, tol |-> stepper.tol,
   coarse_tol |-> stepper.coarse_tol,
   delta_reduction_factor |-> stepper.delta_reduction_factor]

\* a keyword call: what is passed overrides the callee's defaults
BindKwargs(kwargs, defaults) == kwargs @@ defaults

\* XNewReturn that hands on the solve block's tuple as it was unpacked at
\* lines 176 and 261: (x_new, error, core_sources, core_transport)
XNewReturnBlockOrder(sv, cb) ==
  <<sv.x, sv.error, SolveCoreSources(cb, sv.x), SolveCoreTransport(cb, sv.x)>>

\* _x_new_helper lines 195 and 283, returned unchanged by _x_new line 100
XNewReturn(sv, cb) ==
  <<sv.x, SolveCoreSources(cb, sv.x), SolveCoreTransport(cb, sv.x), sv.error>>

(* --------------------- update_state (section 4.1) ---------------------- *)
\* update_core_profiles: the evolving fields take the solved values, in the
\* order of evolving_names; every other field is left as prescribed
update_core_profiles(core_profiles, xs, names) ==
  [f \in FieldSet |->
     IF \E i \in 1..Len(names) : names[i] = f
     THEN xs[CHOOSE i \in 1..Len(names) : names[i] = f]
     ELSE core_profiles[f]]

\* CallMerge that merges into the t-state instead of the prescribed state
CallMergeIntoT(a, xs, names) ==
  update_core_profiles(a.core_profiles_t, xs, names)

\* __call__ lines 136-141: the merge into the prescribed t+dt state
CallMerge(a, xs, names) ==
  update_core_profiles(a.core_profiles_t_plus_dt, xs, names)

(* ------------------------------- state --------------------------------- *)
VARIABLES
  self,            \* the stepper object: its class and attributes
  pc,              \* where the current invocation of __call__ is
  args,            \* the arguments of the current invocation
  evolving_names,  \* __call__'s local of that name
  coeffs_callback, \* the callback object _x_new built for this call
  solve,           \* the state of the running solve block
  x_new,           \* __call__'s locals assigned at lines 119 / 131-134
  core_transport,
  aux_output,
  error,
  result,          \* the tuple __call__ returned
  calls_x_new,     \* how many times this invocation entered _x_new
  outcomes,        \* the outcome codes this invocation has returned
  first            \* history: the arguments and the result of the first
                   \* call this stepper object returned from

vars == <<self, pc, args, evolving_names, coeffs_callback, solve, x_new,
          core_transport, aux_output, error, result, calls_x_new, outcomes,
          first>>

locals == <<x_new, core_transport, aux_output, error>>

Init ==
  /\ \/ self \in Steppers /\ pc = "idle"
     \/ self \in AbstractSteppers /\ pc = "rejected"
  /\ args = Unset
  /\ evolving_names = <<>>
  /\ coeffs_callback = Unset
  /\ solve = Unset
  /\ x_new = Unset
  /\ core_transport = Unset
  /\ aux_output = Unset
  /\ error = Unset
  /\ result = Unset
  /\ calls_x_new = 0
  /\ outcomes = <<>>
  /\ first = Unset

(* ------------------------- Stepper.__call__ ---------------------------- *)
\* the outer loop invokes the stepper; lines 105-115 derive the selection
Call(cfg, cpt, cptdt, dt) ==
  /\ pc = "idle"
  /\ args' = [static_config_slice |-> cfg, core_profiles_t |-> cpt,
              core_profiles_t_plus_dt |-> cptdt, dt |-> dt]
  /\ evolving_names' = EvolvingNames(cfg)
  /\ pc' = "dispatch"
  /\ UNCHANGED <<self, first, coeffs_callback, solve, locals, result,
                 calls_x_new, outcomes>>

\* SkipSolve without the guard of line 118: _x_new is entered for the empty
\* selection too and hands back the zeros
SkipSolveViaXNew ==
  /\ pc = "dispatch"
  /\ evolving_names = <<>>
  /\ calls_x_new' = calls_x_new + 1
  /\ x_new' = <<>>
  /\ core_transport' = CoreTransportZeros
  /\ aux_output' = AuxOutputZeros
  /\ error' = 0
  /\ pc' = "merge"
  /\ UNCHANGED <<self, first, args, evolving_names, coeffs_callback, solve,
                 result, outcomes>>

\* lines 130-134: nothing evolves, the solver functions are not called
SkipSolve ==
  /\ pc = "dispatch"
  /\ evolving_names = <<>>
  /\ x_new' = <<>>
  /\ core_transport' = CoreTransportZeros
  /\ aux_output' = AuxOutputZeros
  /\ error' = 0
  /\ pc' = "merge"
  /\ UNCHANGED <<self, first, args, evolving_names, coeffs_callback, solve,
                 result, calls_x_new, outcomes>>

\* XNewRaise that does not raise: the base _x_new hands back an empty
\* solution with outcome 0
XNewRaiseReturnsPlaceholder ==
  /\ pc = "dispatch"
  /\ evolving_names # <<>>
  /\ self.class = "Stepper"
  /\ calls_x_new' = calls_x_new + 1
  /\ x_new' = [i \in 1..Len(evolving_names) |->
                 args.core_profiles_t[evolving_names[i]]]
  /\ core_transport' = CoreTransportZeros
  /\ aux_output' = AuxOutputZeros
  /\ error' = 0
  /\ pc' = "merge"
  /\ UNCHANGED <<self, first, args, evolving_names, coeffs_callback, solve,
                 result, outcomes>>

\* line 119 on the base class: Stepper._x_new raises NotImplementedError
XNewRaise ==
  /\ pc = "dispatch"
  /\ evolving_names # <<>>
  /\ self.class = "Stepper"
  /\ calls_x_new' = calls_x_new + 1
  /\ pc' = "raised"
  /\ UNCHANGED <<self, first, args, evolving_names, coeffs_callback, solve,
                 locals, result, outcomes>>

(* ------------------- NonlinearThetaMethod._x_new ----------------------- *)
\* the state a solve block starts in: the guess is the initial guess
SolveStart(params, cb, dt, x_old) ==
  LET init == InitialGuess(params.initial_guess_mode, cb, dt, x_old)
  IN  [params |-> params, dt |-> dt, x_old |-> x_old, init_x_new |-> init, x |-> init,
       iterations |-> 0, delta |-> [finite |-> TRUE, vec |-> <<>>],
       tau |-> TauOne, last_tau |-> TauOne, error |-> 0,
       jacobians |-> 0, nonfinite |-> FALSE]

\* XNewNewtonRaphson that keeps the callback it built on the stepper object
\* and uses it again in later calls
XNewNewtonRaphsonCachedCallback ==
  /\ pc = "dispatch"
  /\ evolving_names # <<>>
  /\ self.class = "NewtonRaphsonThetaMethod"
  /\ calls_x_new' = calls_x_new + 1
  /\ coeffs_callback' =
       IF "coeffs_callback" \in DOMAIN self THEN self.coeffs_callback
       ELSE CoeffsCallbackNew(self, args, evolving_names)
  /\ self' = IF "coeffs_callback" \in DOMAIN self THEN self
             ELSE [n \in {"coeffs_callback"} |-> coeffs_callback'] @@ self
  /\ solve' = SolveStart(BindKwargs(NewtonRaphsonKwargs(self), NewtonRaphsonDefaults),
                         coeffs_callback', args.dt,
                         XOld(args.core_profiles_t, evolving_names))
  /\ pc' = "newton"
  /\ UNCHANGED <<first, args, evolving_names, locals, result, outcomes>>

\* lines 77-98 and 261-281: build the callback, enter newton_raphson_solve_block
XNewNewtonRaphson ==
  /\ pc = "dispatch"
  /\ evolving_names # <<>>
  /\ self.class = "NewtonRaphsonThetaMethod"
  /\ calls_x_new' = calls_x_new + 1
  /\ coeffs_callback' = CoeffsCallbackNew(self, args, evolving_names)
  /\ solve' = SolveStart(BindKwargs(NewtonRaphsonKwargs(self), NewtonRaphsonDefaults),
                         coeffs_callback', args.dt,
                         XOld(args.core_profiles_t, evolving_names))
  /\ pc' = "newton"
  /\ UNCHANGED <<self, first, args, evolving_names, locals, result, outcomes>>

\* lines 77-98 and 176-193: build the callback, enter optimizer_solve_block
XNewOptimizer ==
  /\ pc = "dispatch"
  /\ evolving_names # <<>>
  /\ self.class = "OptimizerThetaMethod"
  /\ calls_x_new' = calls_x_new + 1
  /\ coeffs_callback' = CoeffsCallbackNew(self, args, evolving_names)
  /\ solve' = SolveStart(BindKwargs(OptimizerKwargs(self), OptimizerDefaults),
                         coeffs_callback', args.dt,
                         XOld(args.core_profiles_t, evolving_names))
  /\ pc' = "optimizer"
  /\ UNCHANGED <<self, first, args, evolving_names, locals, result, outcomes>>

(* --------------- newton_raphson_solve_block (section 4.4) -------------- *)
\* the residual norm at the current guess
CurrentNorm == ResidualNorm(coeffs_callback, solve.dt, solve.x_old, solve.x)

\* the residual at the current guess is finite
CurrentFinite == FiniteAt(coeffs_callback, solve.x)

\* the residual norm at the current guess is below t (a non-finite norm
\* is below nothing)
CurrentBelow(t) == CurrentFinite /\ CurrentNorm < t

\* the Newton step of step 2c: non-finite when the residual or the
\* Jacobian is
NewtonStep(cb, sv) ==
  IF JacobianFinite(cb, sv.x)
  THEN LinearSolve(Jacobian(cb, sv.dt, sv.x_old, sv.x), Residual(cb, sv.dt, sv.x_old, sv.x))
  ELSE [finite |-> FALSE, vec |-> <<>>]

\* the guess advanced by the step damped with tau sixteenths
Trial(sv, tau) ==
  [i \in 1..Len(sv.x) |-> sv.x[i] + TruncDiv(tau * sv.delta.vec[i], TauOne)]

\* step 2d: the damped trial improves the residual (a non-finite trial
\* never does)
Improves(cb, sv, tau) ==
  /\ sv.delta.finite
  /\ FiniteAt(cb, Trial(sv, tau))
  /\ ResidualNorm(cb, sv.dt, sv.x_old, Trial(sv, tau))
       < ResidualNorm(cb, sv.dt, sv.x_old, sv.x)

\* step 2d: the residual of the trial at the current damping factor is
\* non-finite
TrialNonFinite(cb, sv) ==
  sv.delta.finite /\ ~FiniteAt(cb, Trial(sv, sv.tau))

\* step 2d: the damping factor shrunk by the reduction factor
Shrink(tau, factor) == (tau * factor) \div TauOne

\* an iteration budget of zero: the initial guess is returned, outcome 0
NewtonZeroBudget ==
  /\ pc = "newton"
  /\ solve.params.maxiter = 0
  /\ solve' = [solve EXCEPT !.error = 0]
  /\ pc' = "solved"
  /\ UNCHANGED <<self, first, args, evolving_names, coeffs_callback, locals,
                 result, calls_x_new, outcomes>>

\* steps 2a-2b: the residual norm is below the strict tolerance
NewtonConverged ==
  /\ pc = "newton"
  /\ solve.params.maxiter > 0
  /\ CurrentBelow(solve.params.tol)
  /\ solve' = [solve EXCEPT !.error = 0]
  /\ pc' = "solved"
  /\ UNCHANGED <<self, first, args, evolving_names, coeffs_callback, locals,
                 result, calls_x_new, outcomes>>

\* step 3: the budget is used up; the coarse tolerance decides
NewtonBudgetExhausted ==
  /\ pc = "newton"
  /\ solve.params.maxiter > 0
  /\ ~CurrentBelow(solve.params.tol)
  /\ solve.iterations >= solve.params.maxiter
  /\ solve' = [solve EXCEPT
                 !.error = IF CurrentBelow(solve.params.coarse_tol) THEN 0 ELSE 1,
                 !.nonfinite = @ \/ ~CurrentFinite]
  /\ pc' = "solved"
  /\ UNCHANGED <<self, first, args, evolving_names, coeffs_callback, locals,
                 result, calls_x_new, outcomes>>

\* step 2c: Jacobian and full Newton step; damping starts at 1
NewtonLinearize ==
  /\ pc = "newton"
  /\ solve.params.maxiter > 0
  /\ ~CurrentBelow(solve.params.tol)
  /\ solve.iterations < solve.params.maxiter
  /\ solve' = [solve EXCEPT
                 !.delta = NewtonStep(coeffs_callback, solve),
                 !.tau = TauOne,
                 !.jacobians = @ + 1,
                 !.nonfinite = @ \/ ~JacobianFinite(coeffs_callback, solve.x)]
  /\ pc' = "damp"
  /\ UNCHANGED <<self, first, args, evolving_names, coeffs_callback, locals,
                 result, calls_x_new, outcomes>>

\* steps 2d and 2f: the trial improves; advance the guess by the damped step
DampAccept ==
  /\ pc = "damp"
  /\ Improves(coeffs_callback, solve, solve.tau)
  /\ solve' = [solve EXCEPT !.x = Trial(solve, solve.tau),
                            !.iterations = @ + 1,
                            !.last_tau = solve.tau]
  /\ pc' = "newton"
  /\ UNCHANGED <<self, first, args, evolving_names, coeffs_callback, locals,
                 result, calls_x_new, outcomes>>

\* step 2d: no improvement; shrink the damping factor and retry
DampShrink ==
  /\ pc = "damp"
  /\ ~Improves(coeffs_callback, solve, solve.tau)
  /\ Shrink(solve.tau, solve.params.delta_reduction_factor) >= solve.params.tau_min
  /\ solve' = [solve EXCEPT
                 !.tau = Shrink(solve.tau, solve.params.delta_reduction_factor),
                 !.nonfinite = @ \/ TrialNonFinite(coeffs_callback, solve)]
  /\ UNCHANGED <<self, first, pc, args, evolving_names, coeffs_callback,
                 locals, result, calls_x_new, outcomes>>

\* steps 2d-2e: the damping factor fell below the minimum; the step fails
DampExhausted ==
  /\ pc = "damp"
  /\ ~Improves(coeffs_callback, solve, solve.tau)
  /\ Shrink(solve.tau, solve.params.delta_reduction_factor) < solve.params.tau_min
  /\ solve' = [solve EXCEPT
                 !.tau = Shrink(solve.tau, solve.params.delta_reduction_factor),
                 !.error = 1,
                 !.nonfinite = @ \/ TrialNonFinite(coeffs_callback, solve)]
  /\ pc' = "solved"
  /\ UNCHANGED <<self, first, args, evolving_names, coeffs_callback, locals,
                 result, calls_x_new, outcomes>>

(* ----------------- optimizer_solve_block (section 4.3) ----------------- *)
CurrentLoss == Loss(coeffs_callback, solve.dt, solve.x_old, solve.x)

\* the loss at the current guess is below t (a non-finite loss is below
\* nothing)
CurrentLossBelow(t) == CurrentFinite /\ CurrentLoss < t

\* one quasi-Newton iteration: a unit step of every variable down the
\* gradient of the loss, kept only if the loss decreases
OptimizerStep(cb, sv) ==
  LET r == Residual(cb, sv.dt, sv.x_old, sv.x)
      j == Jacobian(cb, sv.dt, sv.x_old, sv.x)
      cand == [i \in 1..Len(sv.x) |-> sv.x[i] - Sign(r[i] * j[i])]
  IN  IF /\ JacobianFinite(cb, sv.x)
         /\ FiniteAt(cb, cand)
         /\ Loss(cb, sv.dt, sv.x_old, cand) < Loss(cb, sv.dt, sv.x_old, sv.x)
      THEN cand ELSE sv.x

\* an iteration budget of zero: the initial guess is returned, outcome 0
OptimizerZeroBudget ==
  /\ pc = "optimizer"
  /\ solve.params.maxiter = 0
  /\ solve' = [solve EXCEPT !.error = 0]
  /\ pc' = "solved"
  /\ UNCHANGED <<self, first, args, evolving_names, coeffs_callback, locals,
                 result, calls_x_new, outcomes>>

\* the tolerance is met within the budget
OptimizerConverged ==
  /\ pc = "optimizer"
  /\ solve.params.maxiter > 0
  /\ CurrentLossBelow(solve.params.tol)
  /\ solve' = [solve EXCEPT !.error = 0]
  /\ pc' = "solved"
  /\ UNCHANGED <<self, first, args, evolving_names, coeffs_callback, locals,
                 result, calls_x_new, outcomes>>

\* the budget is used up with the loss above the tolerance
OptimizerBudgetExhausted ==
  /\ pc = "optimizer"
  /\ solve.params.maxiter > 0
  /\ ~CurrentLossBelow(solve.params.tol)
  /\ solve.iterations >= solve.params.maxiter
  /\ solve' = [solve EXCEPT !.error = 1,
                            !.nonfinite = @ \/ ~CurrentFinite]
  /\ pc' = "solved"
  /\ UNCHANGED <<self, first, args, evolving_names, coeffs_callback, locals,
                 result, calls_x_new, outcomes>>

OptimizerIterate ==
  /\ pc = "optimizer"
  /\ solve.params.maxiter > 0
  /\ ~CurrentLossBelow(solve.params.tol)
  /\ solve.iterations < solve.params.maxiter
  /\ solve' = [solve EXCEPT
                 !.x = OptimizerStep(coeffs_callback, solve),
                 !.iterations = @ + 1,
                 !.nonfinite = @ \/ ~JacobianFinite(coeffs_callback, solve.x)]
  /\ UNCHANGED <<self, first, pc, args, evolving_names, coeffs_callback,
                 locals, result, calls_x_new, outcomes>>

(* -------------------- back in Stepper.__call__ ------------------------- *)
\* XNewUnpack that re-enters _x_new when the solve reported outcome 1
XNewUnpackRetry ==
  /\ pc = "solved"
  /\ IF solve.error = 1
     THEN /\ pc' = "dispatch"
          /\ UNCHANGED locals
     ELSE /\ LET t == XNewReturn(solve, coeffs_callback)
             IN  /\ x_new' = t[1]
                 /\ core_transport' = t[2]
                 /\ aux_output' = t[3]
                 /\ error' = t[4]
          /\ pc' = "merge"
  /\ UNCHANGED <<self, first, args, evolving_names, coeffs_callback, solve,
                 result, calls_x_new, outcomes>>

\* line 119: the tuple _x_new returned is unpacked into
\* (x_new, core_transport, aux_output, error), position by position
XNewUnpack ==
  /\ pc = "solved"
  /\ LET t == XNewReturn(solve, coeffs_callback)
     IN  /\ x_new' = t[1]
         /\ core_transport' = t[2]
         /\ aux_output' = t[3]
         /\ error' = t[4]
  /\ pc' = "merge"
  /\ UNCHANGED <<self, first, args, evolving_names, coeffs_callback, solve,
                 result, calls_x_new, outcomes>>

\* lines 136-148: merge and return
Return ==
  /\ pc = "merge"
  /\ result' = <<CallMerge(args, x_new, evolving_names),
                 core_transport, aux_output, error>>
  /\ outcomes' = Append(outcomes, error)
  /\ pc' = "returned"
  /\ UNCHANGED <<self, first, args, evolving_names, coeffs_callback, solve,
                 locals, calls_x_new>>

\* the invocation is over (it returned or raised): its frame is gone and
\* the outer loop may invoke the same stepper object again
FrameDiscarded ==
  /\ pc \in {"returned", "raised"}
  /\ pc' = "idle"
  /\ args' = Unset
  /\ evolving_names' = <<>>
  /\ coeffs_callback' = Unset
  /\ solve' = Unset
  /\ x_new' = Unset
  /\ core_transport' = Unset
  /\ aux_output' = Unset
  /\ error' = Unset
  /\ result' = Unset
  /\ calls_x_new' = 0
  /\ outcomes' = <<>>
  /\ UNCHANGED <<self, first>>

Next ==
  \/ \E cfg \in StaticConfigSlices, p \in CallerProfiles :
        Call(cfg, p.core_profiles_t, p.core_profiles_t_plus_dt, p.dt)
  \/ SkipSolve
  \/ XNewRaise
  \/ XNewNewtonRaphson
  \/ XNewOptimizer
  \/ NewtonZeroBudget
  \/ NewtonConverged
  \/ NewtonBudgetExhausted
  \/ NewtonLinearize
  \/ DampAccept
  \/ DampShrink
  \/ DampExhausted
  \/ OptimizerZeroBudget
  \/ OptimizerConverged
  \/ OptimizerBudgetExhausted
  \/ OptimizerIterate
  \/ XNewUnpack
  \/ Return
  \/ FrameDiscarded

Spec == Init /\ [][Next]_vars

(* ======================= properties of the step ======================== *)
AllFlagsFalse(cfg) ==
  ~cfg.ion_heat_eq /\ ~cfg.el_heat_eq /\ ~cfg.current_eq /\ ~cfg.dens_eq

IsAllZero(r) == \A f \in FieldSet : r.coeffs[f] = 0

Nonlinear == self.class \in {"OptimizerThetaMethod", "NewtonRaphsonThetaMethod"}

Solving == pc \in {"newton", "damp", "optimizer"}

\* C1: when all four equation flags are false, _x_new is never entered, and
\* the call returns outcome 0, an all-zero transport snapshot, an all-zero
\* auxiliary output and the prescribed t+dt state it was given.
C1_EmptySelectionSkipsSolve ==
  (args # Unset /\ AllFlagsFalse(args.static_config_slice)) =>
    /\ calls_x_new = 0
    /\ ~Solving /\ pc \notin {"solved", "raised"}
    /\ pc = "returned" =>
         /\ result[4] = 0
         /\ result[2].kind = "CoreTransport" /\ IsAllZero(result[2])
         /\ result[3].kind = "AuxOutput" /\ IsAllZero(result[3])
         /\ result[1] = args.core_profiles_t_plus_dt

C1_Witness ==
  pc = "returned" /\ AllFlagsFalse(args.static_config_slice)

\* C2: an invocation that returns has produced exactly one outcome code,
\* the one in its result, and that code is 0 or 1; an invocation that has
\* not returned has produced none.
C2_OneOutcomeCode ==
  /\ pc = "returned" =>
       /\ Len(outcomes) = 1
       /\ ToString(outcomes[1]) \in {"0", "1"}
       /\ result[4] = outcomes[1]
  /\ pc # "returned" => outcomes = <<>>

C2_Witness ==
  /\ pc = "returned"
  /\ self.class = "NewtonRaphsonThetaMethod"
  /\ evolving_names # <<>>
  /\ outcomes = <<1>>

\* C3: with maxiter = 0 and a non-empty selection, either strategy returns
\* the initial guess itself with outcome 0, whatever the tolerances and
\* however large the residual at the initial guess.
C3_ZeroBudgetReturnsGuess ==
  (Nonlinear /\ self.maxiter = 0 /\ pc \in {"solved", "merge", "returned"}
     /\ evolving_names # <<>>) =>
    /\ solve.x = solve.init_x_new
    /\ solve.error = 0
    /\ pc \in {"merge", "returned"} => x_new = solve.init_x_new /\ error = 0
    /\ pc = "returned" => result[4] = 0

C3_Witness ==
  /\ pc = "returned"
  /\ Nonlinear /\ self.maxiter = 0
  /\ evolving_names # <<>>
  /\ solve.init_x_new # solve.x_old
  /\ ResidualNorm(coeffs_callback, solve.dt, solve.x_old, x_new) >= self.tol

Evolving(f) == \E i \in 1..Len(evolving_names) : evolving_names[i] = f

\* C4: on the non-empty path through a NonlinearThetaMethod strategy the
\* second element of the result is the transport coefficients the solve
\* returned and the third is an auxiliary output, as on the empty path.
C4_ResultPositions ==
  (pc = "returned" /\ Nonlinear /\ evolving_names # <<>>) =>
    /\ result[2] = SolveCoreTransport(coeffs_callback, solve.x)
    /\ result[3].kind = "AuxOutput"

\* C5: the returned t+dt state has all four fields; a field outside the
\* selection keeps the prescribed value, and a field of the selection has
\* the value the solve returned for it.
C5_MergeFrame ==
  pc = "returned" =>
    /\ DOMAIN result[1] = FieldSet
    /\ \A f \in FieldSet :
         ~Evolving(f) => result[1][f] = args.core_profiles_t_plus_dt[f]
    /\ \A i \in 1..Len(evolving_names) :
         result[1][evolving_names[i]] = x_new[i]

C5_Witness ==
  /\ pc = "returned"
  /\ Evolving("temp_el") /\ ~Evolving("psi")
  /\ result[1]["temp_el"] # args.core_profiles_t_plus_dt["temp_el"]
  /\ result[1]["temp_el"] # args.core_profiles_t["temp_el"]

FlagOf(cfg, f) ==
  CASE f = "temp_ion" -> cfg.ion_heat_eq
    [] f = "temp_el" -> cfg.el_heat_eq
    [] f = "psi" -> cfg.current_eq
    [] f = "ne" -> cfg.dens_eq

\* C6: for every combination of the four flags the selection holds exactly
\* the fields whose flag is set, each once, in the order temp_ion, temp_el,
\* psi, ne.
C6_SelectionFromFlags ==
  args # Unset =>
    /\ \A f \in FieldSet : Evolving(f) <=> FlagOf(args.static_config_slice, f)
    /\ \A i, j \in 1..Len(evolving_names) :
         i < j => Rank(evolving_names[i]) < Rank(evolving_names[j])

C6_Witness ==
  /\ pc = "dispatch"
  /\ args.static_config_slice =
       [ion_heat_eq |-> FALSE, el_heat_eq |-> TRUE,
        current_eq |-> TRUE, dens_eq |-> TRUE]
  /\ evolving_names = <<"temp_el", "psi", "ne">>

\* C7: x_old lists the t-state fields in the selection's order, and the
\* merge uses the same order: when the solve hands back the unpacked vector
\* unmodified, every field of the selection gets its own t-state value.
C7_PackRoundTrip ==
  /\ (Solving \/ pc \in {"solved", "merge", "returned"}) /\ solve # Unset =>
       \A i \in 1..Len(evolving_names) :
         solve.x_old[i] = args.core_profiles_t[evolving_names[i]]
  /\ (pc = "returned" /\ solve # Unset /\ x_new = solve.x_old) =>
       \A f \in FieldSet :
         Evolving(f) => result[1][f] = args.core_profiles_t[f]

C7_Witness ==
  /\ pc = "returned"
  /\ Len(evolving_names) >= 3
  /\ solve # Unset
  /\ x_new = solve.x_old

NewtonRaphson == self.class = "NewtonRaphsonThetaMethod"

Frozen == self.callback_class = "FrozenCoeffsCallback"

\* the residual norm at the initial guess of the running solve
InitialNorm == ResidualNorm(coeffs_callback, solve.dt, solve.x_old, solve.init_x_new)

\* C8 as stated: with frozen coefficients and maxiter >= 1 the Newton solve
\* always ends after exactly one outer iteration, taken with damping factor
\* 1, under the strict tolerance and with outcome 0.
C8_ExactlyOneIteration ==
  (NewtonRaphson /\ Frozen /\ self.maxiter >= 1 /\ pc = "solved") =>
    /\ solve.iterations = 1
    /\ solve.last_tau = TauOne
    /\ CurrentNorm < self.tol
    /\ solve.error = 0

\* C8 amended: with frozen coefficients and maxiter >= 1 the Newton solve
\* ends under the strict tolerance with outcome 0 after at most one outer
\* iteration: none when the initial guess already meets the strict
\* tolerance, otherwise exactly one, accepted at damping factor 1 without
\* any shrinking.
C8_AtMostOneIteration ==
  (NewtonRaphson /\ Frozen /\ self.maxiter >= 1) =>
    /\ pc = "damp" =>
         /\ solve.iterations = 0
         /\ solve.tau = TauOne
         /\ Improves(coeffs_callback, solve, TauOne)
    /\ pc = "solved" =>
         /\ solve.iterations = IF InitialNorm < self.tol THEN 0 ELSE 1
         /\ solve.last_tau = TauOne
         /\ CurrentNorm < self.tol
         /\ solve.error = 0

C8_Witness ==
  /\ pc = "solved"
  /\ NewtonRaphson /\ Frozen
  /\ evolving_names = <<"temp_ion", "temp_el">>
  /\ solve.iterations = 1
  /\ solve.x # solve.init_x_new
  /\ solve.error = 0

\* the damping factors the loop of step 2d can try: 1, then each shrunk
RECURSIVE FactorsFrom(_, _)
FactorsFrom(tau, factor) ==
  IF tau = 0 THEN {} ELSE {tau} \cup FactorsFrom(Shrink(tau, factor), factor)

\* no damping factor at or above min improves the residual at this guess
NoFactorImproves(min) ==
  \A t \in FactorsFrom(TauOne, solve.params.delta_reduction_factor) :
    t >= min => ~Improves(coeffs_callback, solve, t)

\* the undamped Newton step strictly increases the residual norm
UndampedWorse ==
  /\ solve.delta.finite
  /\ ResidualNorm(coeffs_callback, solve.dt, solve.x_old, Trial(solve, TauOne)) > CurrentNorm

\* C9: in the damping loop, when the undamped step strictly increases the
\* residual the guess advances only with a damping factor below 1 that
\* improves the residual; and when no damping factor at or above the
\* minimum the stepper was configured with improves the residual, the guess
\* is not advanced and the solve ends with outcome 1.
C9_DampedAcceptance ==
  [][pc = "damp" =>
       /\ (pc' = "newton" /\ UndampedWorse) =>
            /\ solve.tau < TauOne
            /\ Improves(coeffs_callback, solve, solve.tau)
            /\ solve'.x = Trial(solve, solve.tau)
       /\ NoFactorImproves(self.tau_min) =>
            /\ solve'.x = solve.x
            /\ pc' \in {"damp", "solved"}
            /\ pc' = "solved" => solve'.error = 1]_vars

\* C10: every tunable given to NewtonRaphsonThetaMethod at construction is
\* the value the Newton solve runs with, the minimum damping factor
\* included.
C10_TunablesReachSolve ==
  (NewtonRaphson /\ solve # Unset) =>
    /\ solve.params.initial_guess_mode = self.initial_guess_mode
    /\ solve.params.maxiter = self.maxiter
    /\ solve.params.tol = self.tol
    /\ solve.params.coarse_tol = self.coarse_tol
    /\ solve.params.delta_reduction_factor = self.delta_reduction_factor
    /\ solve.params.tau_min = self.tau_min

\* the frame still holds the solve block's final state
AfterSolve == solve # Unset /\ pc \in {"solved", "merge", "returned"}

\* the Newton solve used up its whole iteration budget without meeting the
\* strict tolerance of the stepper
BudgetUsedUp ==
  /\ NewtonRaphson
  /\ AfterSolve
  /\ self.maxiter >= 1
  /\ solve.iterations = self.maxiter
  /\ ~CurrentBelow(self.tol)

\* C11: when the Newton-Raphson iteration budget (maxiter >= 1) is used up
\* without the strict tolerance being met, the outcome is 0 if the final
\* residual norm is below the stepper's coarse tolerance and 1 otherwise,
\* and that is the outcome code the call returns.
C11_BudgetExhaustedCoarse ==
  BudgetUsedUp =>
    /\ solve.error = IF CurrentBelow(self.coarse_tol) THEN 0 ELSE 1
    /\ pc = "returned" =>
         ToString(result[4]) = IF CurrentBelow(self.coarse_tol) THEN "0" ELSE "1"

\* a call returned outcome 0 on the coarse tolerance alone
C11_Witness ==
  /\ BudgetUsedUp
  /\ pc = "returned"
  /\ CurrentBelow(self.coarse_tol)
  /\ result[4] = 0

\* a call returned outcome 1 with the budget used up
C11_WitnessFailed ==
  /\ BudgetUsedUp
  /\ pc = "returned"
  /\ ~CurrentBelow(self.coarse_tol)
  /\ result[4] = 1

\* C12 as stated: if any residual or Jacobian evaluation of a step was
\* non-finite, at the current guess or at a trial damping factor, the step
\* ends with outcome 1.
C12_AnyNonFiniteFails ==
  (Nonlinear /\ AfterSolve /\ solve.nonfinite) =>
    /\ solve.error = 1
    /\ pc = "returned" => ToString(result[4]) = "1"

\* C12: for maxiter >= 1, a step that ends with a non-finite residual at
\* its final guess or with a non-finite Newton step (non-finite residual or
\* Jacobian at the current guess) returns outcome 1 as a plain return value
\* and never raises; a non-finite residual at a trial damping factor is
\* never accepted as the new guess, but is handled as a failure to improve
\* (the factor is shrunk), so it alone does not decide the outcome.
C12_NonFiniteStepFails ==
  /\ Nonlinear => pc # "raised"
  /\ (Nonlinear /\ AfterSolve /\ self.maxiter >= 1) =>
       /\ solve.x # solve.init_x_new => CurrentFinite
       /\ solve.error = 0 => CurrentFinite
       /\ (~CurrentFinite \/ ~solve.delta.finite) =>
            /\ solve.error = 1
            /\ pc = "returned" => ToString(result[4]) = "1"

\* a Newton step that was non-finite ended the call with outcome 1
C12_Witness ==
  /\ NewtonRaphson
  /\ pc = "returned"
  /\ solve # Unset
  /\ self.maxiter >= 1
  /\ ~solve.delta.finite
  /\ result[4] = 1

\* a call whose final guess has a non-finite residual returned outcome 1
C12_WitnessResidual ==
  /\ Nonlinear
  /\ pc = "returned"
  /\ solve # Unset
  /\ self.maxiter >= 1
  /\ ~CurrentFinite
  /\ result[4] = 1

\* a trial with a non-finite residual was followed by an accepted one
C12_WitnessRecovered ==
  /\ NewtonRaphson
  /\ pc = "returned"
  /\ solve # Unset
  /\ solve.nonfinite
  /\ solve.iterations > 0
  /\ result[4] = 0

\* the solve of the running invocation reported a convergence failure
SolveFailed == AfterSolve /\ solve.error = 1

\* C13: within one invocation the strategy's solve is started at most once.
\* After a convergence failure the core hands outcome 1 back as a normal
\* return value: it does not raise, does not start the solve again, and
\* the solve it ran used the caller's dt, which is left as it was given.
C13_NoRetry ==
  /\ [](calls_x_new <= 1)
  /\ [](Nonlinear => pc # "raised")
  /\ [](solve # Unset => calls_x_new = 1 /\ solve.dt = args.dt)
  /\ []((SolveFailed /\ pc = "returned") => ToString(result[4]) = "1")
  /\ [][SolveFailed =>
          /\ pc' \in {"merge", "returned", "idle"}
          /\ pc' # "idle" =>
               /\ calls_x_new' = calls_x_new
               /\ solve' = solve
               /\ args' = args]_vars

\* a call whose solve failed to converge returned outcome 1 after one solve
C13_Witness ==
  /\ SolveFailed
  /\ pc = "returned"
  /\ calls_x_new = 1
  /\ result[4] = 1

(* ======================= _artificially_linear ========================== *)
\* callback classes a caller may pass: the two of sim and two subclasses
\* of them a caller defines
AllCallbackClasses ==
  CallbackClasses \cup {"FrozenCoeffsCallbackSubclass", "CoeffsCallbackSubclass"}

\* the classes each callback class derives from, itself included
Bases(c) ==
  CASE c = "CoeffsCallback" -> {"CoeffsCallback"}
    [] c = "FrozenCoeffsCallback" -> {"FrozenCoeffsCallback", "CoeffsCallback"}
    [] c = "FrozenCoeffsCallbackSubclass" ->
         {"FrozenCoeffsCallbackSubclass", "FrozenCoeffsCallback", "CoeffsCallback"}
    [] c = "CoeffsCallbackSubclass" -> {"CoeffsCallbackSubclass", "CoeffsCallback"}

issubclass(c, base) == base \in Bases(c)

\* NonlinearThetaMethod._artificially_linear, lines 124-128
NonlinearArtificiallyLinear(stepper) ==
  IF issubclass(stepper.callback_class, "FrozenCoeffsCallback")
  THEN TRUE ELSE FALSE

\* OptimizerThetaMethod._artificially_linear, lines 197-201
OptimizerArtificiallyLinear(stepper) ==
  IF stepper.maxiter = 0 THEN TRUE ELSE NonlinearArtificiallyLinear(stepper)

\* NewtonRaphsonArtificiallyLinear that leaves out the maxiter test of
\* lines 287-288
NewtonRaphsonArtificiallyLinearNoBudgetTest(stepper) ==
  NonlinearArtificiallyLinear(stepper)

\* NewtonRaphsonThetaMethod._artificially_linear, lines 285-289
NewtonRaphsonArtificiallyLinear(stepper) ==
  IF stepper.maxiter = 0 THEN TRUE ELSE NonlinearArtificiallyLinear(stepper)

\* the steppers the linearity query is put to
LinearitySteppers ==
  {OptimizerThetaMethodInit(m, c, g, n, t) :
     m \in TransportModels, c \in AllCallbackClasses,
     g \in InitialGuessModes, n \in 0..MaxIter, t \in Tols}
  \cup {NewtonRaphsonThetaMethodInit(m, c, g, n, t.tol, t.coarse_tol, f, tm) :
          m \in TransportModels, c \in AllCallbackClasses,
          g \in InitialGuessModes, n \in 0..MaxIter, t \in Tolerances,
          f \in DeltaReductionFactors, tm \in TauMins}

LinearityInit ==
  /\ self \in LinearitySteppers
  /\ pc = "idle"
  /\ args = Unset
  /\ evolving_names = <<>>
  /\ coeffs_callback = Unset
  /\ solve = Unset
  /\ x_new = Unset
  /\ core_transport = Unset
  /\ aux_output = Unset
  /\ error = Unset
  /\ result = Unset
  /\ calls_x_new = 0
  /\ outcomes = <<>>
  /\ first = Unset

\* stepper._artificially_linear() of the optimizer strategy
OptimizerArtificiallyLinearCall ==
  /\ pc = "idle"
  /\ self.class = "OptimizerThetaMethod"
  /\ result' = OptimizerArtificiallyLinear(self)
  /\ pc' = "returned"
  /\ UNCHANGED <<self, first, args, evolving_names, coeffs_callback, solve,
                 locals, calls_x_new, outcomes>>

\* stepper._artificially_linear() of the Newton-Raphson strategy
NewtonRaphsonArtificiallyLinearCall ==
  /\ pc = "idle"
  /\ self.class = "NewtonRaphsonThetaMethod"
  /\ result' = NewtonRaphsonArtificiallyLinear(self)
  /\ pc' = "returned"
  /\ UNCHANGED <<self, first, args, evolving_names, coeffs_callback, solve,
                 locals, calls_x_new, outcomes>>

LinearityNext ==
  \/ OptimizerArtificiallyLinearCall
  \/ NewtonRaphsonArtificiallyLinearCall
  \/ FrameDiscarded

LinearitySpec == LinearityInit /\ [][LinearityNext]_vars

\* C14: for the optimizer and the Newton-Raphson strategies,
\* _artificially_linear() is true exactly when maxiter is 0 or the callback
\* class is the frozen callback class or a subclass of it, and false
\* otherwise, whatever the tolerances and damping settings are.
C14_ArtificiallyLinear ==
  (pc = "returned" /\ result \in BOOLEAN) =>
    (result <=>
       \/ self.maxiter = 0
       \/ self.callback_class \in
            {"FrozenCoeffsCallback", "FrozenCoeffsCallbackSubclass"})

\* the query answered true for a subclass of the frozen callback with a
\* positive budget
C14_Witness ==
  /\ pc = "returned"
  /\ result = TRUE
  /\ self.maxiter > 0
  /\ self.callback_class = "FrozenCoeffsCallbackSubclass"

\* the query answered false
C14_WitnessFalse ==
  /\ pc = "returned"
  /\ result = FALSE
  /\ self.maxiter > 0
  /\ self.callback_class = "CoeffsCallbackSubclass"

(* ===================== repeated calls of one stepper =================== *)
\* the selections of the repeated calls: none, or the ion temperature
RepeatConfigs ==
  {cfg \in StaticConfigSlices :
     ~cfg.el_heat_eq /\ ~cfg.current_eq /\ ~cfg.dens_eq}

\* Return, with the first call's arguments and result kept as history
ReturnFirst ==
  /\ pc = "merge"
  /\ result' = <<CallMerge(args, x_new, evolving_names),
                 core_transport, aux_output, error>>
  /\ outcomes' = Append(outcomes, error)
  /\ pc' = "returned"
  /\ first' = IF first = Unset
              THEN [args |-> args, result |-> result', later |-> FALSE]
              ELSE [first EXCEPT !.later = TRUE]
  /\ UNCHANGED <<self, args, evolving_names, coeffs_callback, solve, locals,
                 calls_x_new>>

RepeatNext ==
  \/ \E cfg \in RepeatConfigs, p \in CallerProfiles :
        Call(cfg, p.core_profiles_t, p.core_profiles_t_plus_dt, p.dt)
  \/ SkipSolve
  \/ XNewRaise
  \/ XNewNewtonRaphson
  \/ XNewOptimizer
  \/ NewtonZeroBudget
  \/ NewtonConverged
  \/ NewtonBudgetExhausted
  \/ NewtonLinearize
  \/ DampAccept
  \/ DampShrink
  \/ DampExhausted
  \/ OptimizerZeroBudget
  \/ OptimizerConverged
  \/ OptimizerBudgetExhausted
  \/ OptimizerIterate
  \/ XNewUnpack
  \/ ReturnFirst
  \/ FrameDiscarded

RepeatSpec == Init /\ [][RepeatNext]_vars

\* a call returned after an earlier call of the same stepper object with
\* the same arguments
SameArgsAgain ==
  /\ pc = "returned"
  /\ first # Unset
  /\ first.later
  /\ first.args = args

\* C15: after any sequence of earlier calls of the same stepper object,
\* calls that returned outcome 1 included, a call with the arguments of the
\* first call returns the 4-tuple the first call, made on the freshly
\* constructed stepper, returned; no call changes an attribute of the
\* stepper, the callback in use is the one built in this call from this
\* call's arguments, and nothing of a call is left when the next starts.
C15_Idempotent ==
  /\ [][self' = self]_vars
  /\ [](SameArgsAgain => result = first.result)
  /\ [](coeffs_callback # Unset =>
          /\ coeffs_callback.class = self.callback_class
          /\ coeffs_callback.transport_model = self.transport_model
          /\ coeffs_callback.core_profiles_t = args.core_profiles_t
          /\ coeffs_callback.evolving_names = evolving_names)
  /\ [](pc = "idle" =>
          /\ coeffs_callback = Unset
          /\ solve = Unset
          /\ locals = <<Unset, Unset, Unset, Unset>>)

\* a later call with the arguments of a first call that returned outcome 1
C15_Witness ==
  /\ SameArgsAgain
  /\ evolving_names # <<>>
  /\ first.result[4] = 1
  /\ result[4] = 1

\* the stepper's class does not provide the core solve
NoCoreSolve == self.class \in {"Stepper", "NonlinearThetaMethod"}

\* C16 as stated: a stepper whose class does not provide its core solve
\* fails fatally for every input and every selection, and never returns a
\* step outcome code.
C16_NeverReturns ==
  NoCoreSolve => (pc # "returned" /\ outcomes = <<>>)

\* C16: a nonlinear strategy class without its solve helper is rejected at
\* construction, and a stepper of a class without _x_new raises whenever it
\* is invoked with a non-empty selection; on these paths no outcome code is
\* returned. Invoked with the empty selection, such a stepper does not
\* dispatch to the solve and returns normally with outcome 0.
C16_FailsAtDispatch ==
  /\ self.class = "NonlinearThetaMethod" =>
       (pc = "rejected" /\ outcomes = <<>> /\ result = Unset)
  /\ (self.class = "Stepper" /\ evolving_names # <<>>) =>
       /\ pc \in {"dispatch", "raised"}
       /\ outcomes = <<>>
       /\ result = Unset
  /\ (self.class = "Stepper" /\ pc = "returned") =>
       /\ AllFlagsFalse(args.static_config_slice)
       /\ ToString(result[4]) = "0"
  /\ pc \in {"raised", "rejected"} => NoCoreSolve

\* invoking a base-class stepper with a non-empty selection raised
C16_Witness ==
  /\ self.class = "Stepper"
  /\ pc = "raised"
  /\ evolving_names # <<>>
  /\ calls_x_new = 1

\* a construction was rejected
C16_WitnessRejected == self.class = "NonlinearThetaMethod" /\ pc = "rejected"

\* a nonlinear strategy returned from a solve with a positive budget
ReturnedFromSolve ==
  /\ Nonlinear
  /\ pc = "returned"
  /\ evolving_names # <<>>
  /\ self.maxiter >= 1

\* the residual norm (the loss) at the returned vector is below t
ReturnedNormBelow(t) ==
  /\ FiniteAt(coeffs_callback, x_new)
  /\ ResidualNorm(coeffs_callback, args.dt, solve.x_old, x_new) < t

ReturnedLossBelow(t) ==
  /\ FiniteAt(coeffs_callback, x_new)
  /\ Loss(coeffs_callback, args.dt, solve.x_old, x_new) < t

\* C17: for either strategy with a non-empty selection and maxiter >= 1,
\* the step returns outcome 0 only if the residual norm (Newton-Raphson) or
\* the loss (optimizer) at the returned vector is under the stepper's
\* tolerance (for Newton-Raphson the strict or the coarse one), and returns
\* outcome 1 only if it is not under the strict tolerance.
C17_OutcomeMeansTolerance ==
  ReturnedFromSolve =>
    /\ ToString(result[4]) \in {"0", "1"}
    /\ (NewtonRaphson /\ ToString(result[4]) = "0") =>
         (ReturnedNormBelow(self.tol) \/ ReturnedNormBelow(self.coarse_tol))
    /\ (NewtonRaphson /\ ToString(result[4]) = "1") =>
         ~ReturnedNormBelow(self.tol)
    /\ (~NewtonRaphson /\ ToString(result[4]) = "0") =>
         ReturnedLossBelow(self.tol)
    /\ (~NewtonRaphson /\ ToString(result[4]) = "1") =>
         ~ReturnedLossBelow(self.tol)

\* the optimizer returned outcome 0 after iterating to a loss under its
\* tolerance
C17_Witness ==
  /\ ReturnedFromSolve
  /\ ~NewtonRaphson
  /\ solve.iterations > 0
  /\ result[4] = 0
  /\ ReturnedLossBelow(self.tol)

\* Newton-Raphson returned outcome 1 with the norm not under the strict
\* tolerance
C17_WitnessFailed ==
  /\ ReturnedFromSolve
  /\ NewtonRaphson
  /\ result[4] = 1
  /\ ~ReturnedNormBelow(self.tol)

\* the optimizer returned outcome 1
C17_WitnessOptimizerFailed ==
  /\ ReturnedFromSolve
  /\ ~NewtonRaphson
  /\ result[4] = 1

\* the residual norm at the initial guess is below t
InitialBelow(t) ==
  FiniteAt(coeffs_callback, solve.init_x_new) /\ InitialNorm < t

\* a Newton-Raphson solve with a positive budget is running or has ended
NewtonSolve ==
  /\ NewtonRaphson
  /\ solve # Unset
  /\ self.maxiter >= 1

\* C18: in a Newton-Raphson solve with maxiter >= 1, once the residual norm
\* at the current guess is below the stepper's strict tolerance the loop
\* stops with outcome 0: no Jacobian and no Newton step is computed and the
\* guess is not changed afterwards. If the initial guess already meets the
\* strict tolerance, the returned vector is the initial guess, no Newton
\* step is taken and the outcome is 0.
C18_StopsWhenConverged ==
  /\ [][(NewtonSolve /\ pc = "newton" /\ CurrentBelow(self.tol)) =>
          /\ pc' = "solved"
          /\ solve'.x = solve.x
          /\ solve'.jacobians = solve.jacobians
          /\ solve'.delta = solve.delta
          /\ solve'.iterations = solve.iterations
          /\ solve'.error = 0]_vars
  /\ [][(NewtonSolve /\ AfterSolve /\ pc' # "idle") => solve' = solve]_vars
  /\ []((NewtonSolve /\ InitialBelow(self.tol)) =>
          /\ pc # "damp"
          /\ solve.x = solve.init_x_new
          /\ solve.iterations = 0
          /\ solve.jacobians = 0
          /\ solve.error = 0
          /\ pc = "returned" =>
               (x_new = solve.init_x_new /\ ToString(result[4]) = "0"))

\* a call returned its initial guess, which met the strict tolerance under
\* guess-dependent coefficients
C18_Witness ==
  /\ NewtonSolve
  /\ ~Frozen
  /\ pc = "returned"
  /\ InitialBelow(self.tol)
  /\ x_new = solve.init_x_new
  /\ result[4] = 0

\* the loop stopped on the strict tolerance after advancing the guess
C18_WitnessAfterSteps ==
  /\ NewtonSolve
  /\ pc = "solved"
  /\ solve.iterations > 0
  /\ solve.iterations < self.maxiter
  /\ CurrentBelow(self.tol)
  /\ solve.error = 0

(* ============================ termination ============================== *)
\* the Newton-Raphson steppers, each invoked for the ion temperature alone
\* or together with the electron temperature
NewtonRaphsonSteppers ==
  {s \in Steppers : s.class = "NewtonRaphsonThetaMethod"}

TerminationConfigs ==
  {cfg \in StaticConfigSlices :
     cfg.ion_heat_eq /\ ~cfg.current_eq /\ ~cfg.dens_eq}

TerminationInit == Init /\ self \in NewtonRaphsonSteppers

\* the steps a Newton-Raphson invocation takes once it was made
Running ==
  \/ XNewNewtonRaphson
  \/ NewtonZeroBudget
  \/ NewtonConverged
  \/ NewtonBudgetExhausted
  \/ NewtonLinearize
  \/ DampAccept
  \/ DampShrink
  \/ DampExhausted
  \/ XNewUnpack
  \/ Return

TerminationNext ==
  \/ \E cfg \in TerminationConfigs, p \in CallerProfiles :
        Call(cfg, p.core_profiles_t, p.core_profiles_t_plus_dt, p.dt)
  \/ Running
  \/ FrameDiscarded

\* the interpreter runs an invocation that was made to its end without
\* waiting for anything: its steps are taken as long as one is possible
TerminationSpec ==
  TerminationInit /\ [][TerminationNext]_vars /\ WF_vars(Running)

\* C19: every Newton-Raphson step invocation terminates with an outcome:
\* the outer loop advances the guess at most maxiter times and computes at
\* most maxiter Newton steps, every trial of a damping loop uses a smaller
\* damping factor than the one before, none below the positive minimum, and
\* a call that was made returns an outcome code 0 or 1.
C19_Terminates ==
  /\ [](NewtonRaphson /\ solve # Unset =>
          /\ solve.iterations <= self.maxiter
          /\ solve.jacobians <= self.maxiter
          /\ solve.tau \in 0..TauOne
          /\ pc = "damp" => solve.tau >= solve.params.tau_min
          /\ solve.params.tau_min > 0)
  /\ [][(NewtonRaphson /\ pc = "damp" /\ pc' = "damp") =>
          solve'.tau < solve.tau]_vars
  /\ ((NewtonRaphson /\ pc = "dispatch") ~>
        (pc = "returned" /\ ToString(result[4]) \in {"0", "1"}))

\* a Newton-Raphson call returned after a damping loop that shrank the
\* factor and an outer loop that used its whole budget
C19_Witness ==
  /\ NewtonSolve
  /\ pc = "returned"
  /\ solve.iterations = self.maxiter
  /\ solve.last_tau < TauOne
  /\ result[4] \in {0, 1}

\* the t-state values of the selection, read from the call's arguments
ArgsXOld ==
  [i \in 1..Len(evolving_names) |-> args.core_profiles_t[evolving_names[i]]]

\* the residual norm of the call's problem at vector x
ArgsNorm(x) == ResidualNorm(coeffs_callback, args.dt, ArgsXOld, x)

\* an outer Newton iteration advances the guess
Advances == NewtonRaphson /\ pc = "damp" /\ pc' = "newton"

\* a Newton-Raphson call returned from its solve
NewtonReturned == NewtonRaphson /\ solve # Unset /\ pc = "returned"

\* every advancing outer iteration strictly decreases the residual norm
NormDecreases ==
  [][Advances =>
       /\ solve'.x # solve.x
       /\ FiniteAt(coeffs_callback, solve.x)
       /\ FiniteAt(coeffs_callback, solve'.x)
       /\ ArgsNorm(solve'.x) < ArgsNorm(solve.x)]_vars

\* C20 as stated: the Newton-Raphson residual norm strictly decreases at
\* every outer iteration that advances the guess, and for any outcome the
\* residual norm at the returned vector is finite and not larger than the
\* norm at the initial guess.
C20_NormFiniteNotLarger ==
  /\ NormDecreases
  /\ [](NewtonReturned =>
          /\ FiniteAt(coeffs_callback, x_new)
          /\ ArgsNorm(x_new) <= ArgsNorm(solve.init_x_new))

\* C20: the Newton-Raphson residual norm strictly decreases at every outer
\* iteration that advances the guess. For any outcome, if the residual at
\* the initial guess is finite, the residual norm at the returned vector is
\* finite and not larger than the norm at the initial guess; if it is not
\* finite, the returned vector is the initial guess itself.
C20_NormNotLarger ==
  /\ NormDecreases
  /\ [](NewtonReturned =>
          IF FiniteAt(coeffs_callback, solve.init_x_new)
          THEN /\ FiniteAt(coeffs_callback, x_new)
               /\ ArgsNorm(x_new) <= ArgsNorm(solve.init_x_new)
          ELSE x_new = solve.init_x_new)

\* a failed call returned a vector with a smaller residual norm than its
\* initial guess had
C20_Witness ==
  /\ NewtonReturned
  /\ result[4] = 1
  /\ solve.iterations > 0
  /\ FiniteAt(coeffs_callback, x_new)
  /\ ArgsNorm(x_new) < ArgsNorm(solve.init_x_new)

\* a call returned an initial guess whose residual is not finite
C20_WitnessNonFinite ==
  /\ NewtonReturned
  /\ ~FiniteAt(coeffs_callback, solve.init_x_new)
  /\ x_new = solve.init_x_new

(* ================= evaluations of the coefficient callback ============= *)
\* trial guesses change each evolving field by 0..MaxChange from its
\* t-state value
MaxChange == 3

\* the steppers whose callback is evaluated: one per closure law and
\* callback class
CallbackSteppers ==
  {NewtonRaphsonThetaMethodInit(m, c, "x_old", MAXITER, TOL, COARSE_TOL,
                                DELTA_REDUCTION_FACTOR, TAU_MIN) :
     m \in TransportModels, c \in CallbackClasses}

CallbackInit == Init /\ self \in CallbackSteppers

\* the trial guesses a solver may evaluate the callback at
TrialGuesses(cb) ==
  {[i \in 1..Len(cb.evolving_names) |->
      cb.core_profiles_t[cb.evolving_names[i]] + u[i]] :
     u \in [1..Len(cb.evolving_names) -> 0..MaxChange]}

\* a stateful callback: every evaluation rebinds the t-state of the
\* evolving fields to the guess it was evaluated at
CoeffsCallbackEvaluateRebinding(cb, x) ==
  [coeffs |-> CallbackCall(cb, x),
   callback |->
     [cb EXCEPT !.core_profiles_t =
        [f \in FieldSet |->
           IF \E i \in 1..Len(x) : cb.evolving_names[i] = f
           THEN x[CHOOSE i \in 1..Len(x) : cb.evolving_names[i] = f]
           ELSE @[f]]]]

\* coeffs_callback(x): the coefficients returned and the callback object
\* after the evaluation; the evaluation is pure (section 4.2)
CoeffsCallbackEvaluate(cb, x) ==
  [coeffs |-> CallbackCall(cb, x), callback |-> cb]

\* _x_new, lines 77-86: the callback is built from the call's arguments
CallbackBound ==
  /\ pc = "dispatch"
  /\ evolving_names # <<>>
  /\ coeffs_callback' = CoeffsCallbackNew(self, args, evolving_names)
  /\ pc' = "bound"
  /\ UNCHANGED <<self, first, args, evolving_names, solve, locals, result,
                 calls_x_new, outcomes>>

\* a solver evaluates the callback at trial guess x; the guess and the
\* coefficients of the first evaluation of the step are kept as history,
\* and whether a later evaluation returned other coefficients
CallbackEvaluated(x) ==
  /\ pc \in {"bound", "evaluated"}
  /\ LET r == CoeffsCallbackEvaluate(coeffs_callback, x)
     IN  /\ coeffs_callback' = r.callback
         /\ result' = r.coeffs
         /\ first' = IF first = Unset
                     THEN [args |-> x, result |-> r.coeffs, later |-> FALSE,
                           between |-> FALSE]
                     ELSE [first EXCEPT
                             !.later = TRUE,
                             !.between = @ \/ r.coeffs # first.result]
  /\ x_new' = x
  /\ pc' = "evaluated"
  /\ UNCHANGED <<self, args, evolving_names, solve, core_transport,
                 aux_output, error, calls_x_new, outcomes>>

CallbackNext ==
  \/ \E cfg \in TerminationConfigs, p \in CallerProfiles :
        Call(cfg, p.core_profiles_t, p.core_profiles_t_plus_dt, p.dt)
  \/ CallbackBound
  \/ /\ coeffs_callback # Unset
     /\ \E x \in TrialGuesses(coeffs_callback) : CallbackEvaluated(x)

CallbackSpec == CallbackInit /\ [][CallbackNext]_vars

\* the callback was evaluated again at the guess of the step's first
\* evaluation
SameGuessAgain ==
  /\ pc = "evaluated"
  /\ first # Unset
  /\ first.later
  /\ first.args = x_new

====
